---------------------------- MODULE Spec2Model ----------------------------
(***************************************************************************)
(* A state-machine model of OpenSim's IKTarget (OpenSim/Tools/IKTarget.cpp):*)
(* the task classifier run by the constructor (buildMarkerMap,             *)
(* buildCoordinateMap), the frame binder (prepareToSolve), the residual    *)
(* evaluator (objectiveFunc, printPerformance), the Jacobian builder       *)
(* (createJacobian) and the iterative solver (iterativeOptimization).      *)
(*                                                                         *)
(* Numbers.  Lengths and coordinate values are integers counted in units   *)
(* of the finite-difference step _perturbation (1e-3), so the step is 1    *)
(* and the solver's tolerance errorTol (1e-4) is 1/10 of a unit.  Weights  *)
(* are perfect squares wherever a square root of them is taken.  Norms are *)
(* kept squared (an integer); comparisons of norms are made on the         *)
(* squares, which orders them the same way.  A missing storage value is    *)
(* the distinguished value NaN.                                            *)
(*                                                                         *)
(* Indices.  Parameter, marker and row indices are 1-based here and        *)
(* 0-based in the source; storage column indices (experimentalColumn, the  *)
(* results of findIndex/rfindIndex) keep the source's 0-based values, with *)
(* -1 for "none".                                                          *)
(***************************************************************************)
EXTENDS Integers, Sequences, FiniteSets, TLC

VARIABLES
    labels,      \* Storage::getColumnLabels(): column 0 is "time"
    storage,     \* the storage's state vectors: frame -> data row
    taskSet,     \* the IKTaskSet handed to the constructor
    model,       \* the Model's coordinates: value, locked, clamped, constrained
    phase,       \* "new" | "ready" (constructed) | "failed" (constructor threw)
    ctorError,   \* which Exception the constructor threw ("" for none)
    markers,     \* _markers: sequence of markerToSolve
    info,        \* the coordinateInfo of every model coordinate
    prescribedQs,            \* _prescribedQs (coordinate indices)
    unprescribedQs,          \* _unprescribedQs
    unprescribedWeightedQs,  \* _unprescribedWeightedQs
    numParameters,           \* getNumParameters()
    dx,                      \* _dx
    interrupted,             \* _interrupted
    printPerformanceValues,  \* _printPerformanceValues
    worst,       \* what setErrorReportingQuantities last stored
    frame,       \* the frame prepareToSolve last bound (0: none yet)
    lastCall,    \* the last public call: its arguments, what it returned,
                 \* the arrays it filled and what it printed
    it           \* the locals of a running iterativeOptimization

vars == <<labels, storage, taskSet, model, phase, ctorError, markers, info,
          prescribedQs, unprescribedQs, unprescribedWeightedQs, numParameters,
          dx, interrupted, printPerformanceValues, worst, frame, lastCall, it>>

---------------------------------------------------------------------------
(* Bounds of the model.                                                    *)

\* Longest task set enumerated for the constructor.
MaxTasks == 2

\* Frames in the storage.
NumFrames == 2

\* Parameter values handed to the evaluator and the solver lie in 0..MaxQ.
MaxQ == 2

---------------------------------------------------------------------------
(* The collaborators: the model's coordinate and marker sets, the storage. *)

\* Names of the model's coordinates, in CoordinateSet order.
CoordNames == <<"q1", "q2", "q3">>

Coords == 1..Len(CoordNames)

\* Names of the markers of the model's MarkerSet.
ModelMarkers == {"M1", "M2"}

\* rdMath::NAN as stored for a missing marker component.
NaN == -999

isNAN(x) == x = NaN

\* sqrt of a perfect square.
Sqrt(w) == CHOOSE r \in 0..w : r * r = w

SumSeq(s) ==
    LET RECURSIVE Go(_)
        Go(k) == IF k = 0 THEN 0 ELSE s[k] + Go(k - 1)
    IN  Go(Len(s))

\* Array<string>::findIndex: 0-based index of the first element equal to name,
\* -1 when there is none.
findIndex(names, name) ==
    IF \E k \in 1..Len(names) : names[k] = name
    THEN (CHOOSE k \in 1..Len(names) :
            names[k] = name /\ \A j \in 1..(k - 1) : names[j] # name) - 1
    ELSE -1

\* Array<string>::rfindIndex: the same, searching from the end.
rfindIndex(names, name) ==
    IF \E k \in 1..Len(names) : names[k] = name
    THEN (CHOOSE k \in 1..Len(names) :
            names[k] = name /\ \A j \in (k + 1)..Len(names) : names[j] # name) - 1
    ELSE -1

\* CoordinateSet::getIndex: 0-based index of the coordinate, -1 when absent.
getIndex(coordName) == findIndex(CoordNames, coordName)

\* StateVector::getDataValue(aIndex, rValue): the value read, or old (rValue
\* left as it was) when the index is outside the row.
getDataValue(row, aIndex, old) ==
    IF aIndex < 0 \/ aIndex >= Len(row) THEN old ELSE row[aIndex + 1]

---------------------------------------------------------------------------
(* Inputs: the task sets, column labels, storages and models enumerated.   *)

\* An IKMarkerTask: getName, getApply, getWeight.
MarkerTask(n, a, w) ==
    [kind |-> "marker", name |-> n, apply |-> a, weight |-> w,
     valueType |-> "DefaultValue", value |-> 0]

\* An IKCoordinateTask: getName, getApply, getWeight, getValueType, getValue.
CoordTask(n, a, w, vt, v) ==
    [kind |-> "coord", name |-> n, apply |-> a, weight |-> w,
     valueType |-> vt, value |-> v]

\* The tasks the constructor is tried on: markers present in the model and
\* absent from it ("M9"), applied or not, with zero, positive and negative
\* weights; coordinate tasks of every value type, one naming no coordinate.
TaskPool ==
    { MarkerTask("M1", TRUE, 4),  MarkerTask("M1", TRUE, 0),
      MarkerTask("M2", TRUE, -1), MarkerTask("M9", TRUE, 1),
      MarkerTask("M9", TRUE, 0),  MarkerTask("M9", FALSE, 1),
      CoordTask("q1", TRUE, 1, "FromFile", 0),
      CoordTask("q3", TRUE, 4, "ManualValue", 1),
      CoordTask("q2", TRUE, 0, "FromFile", 0),
      CoordTask("q3", FALSE, 1, "ManualValue", 1),
      CoordTask("q9", TRUE, 1, "ManualValue", 0),
      CoordTask("q3", TRUE, 1, "FromFile", 0),
      CoordTask("q2", TRUE, 1, "DefaultValue", 0) }

BuildTaskSets == UNION { [1..k -> TaskPool] : k \in 0..MaxTasks }

\* Task sets the frame binder, the evaluator and the solver are run on.
TasksFull ==
    << MarkerTask("M1", TRUE, 1), MarkerTask("M2", TRUE, 4),
       CoordTask("q1", TRUE, 1, "FromFile", 0),
       CoordTask("q2", TRUE, 4, "ManualValue", 1) >>

TasksUnweighted ==
    << CoordTask("q1", TRUE, 0, "FromFile", 0), MarkerTask("M1", TRUE, 4),
       CoordTask("q3", TRUE, 1, "ManualValue", 1),
       CoordTask("q2", TRUE, 1, "FromFile", 0) >>

TasksMarkersOnly == << MarkerTask("M2", TRUE, 1), MarkerTask("M1", TRUE, 1) >>

TasksBad == << MarkerTask("M1", TRUE, 1), MarkerTask("M9", TRUE, 1) >>

\* Column labels of the storage.  Every marker's _tx label is followed by
\* its _ty and _tz labels.  LabelsOld uses the _x/_y/_z suffixes for M1;
\* LabelsDup lists q1 twice (a stale copy first) and the markers in another
\* order.
LabelsStd ==
    << "time", "M1_tx", "M1_ty", "M1_tz", "M2_tx", "M2_ty", "M2_tz", "q1", "q2" >>

LabelsOld ==
    << "time", "M1_x", "M1_y", "M1_z", "M2_tx", "M2_ty", "M2_tz", "q1", "q2" >>

LabelsDup ==
    << "time", "q1", "M2_tx", "M2_ty", "M2_tz", "M1_tx", "M1_ty", "M1_tz", "q1", "q2" >>

Frames == 1..NumFrames

\* What a frame lacks: nothing, one component of M1, or all of M2.
MissingPatterns == { {}, {"M1_ty"}, {"M2_tx", "M2_ty", "M2_tz"} }

\* The value stored under a label in frame f (when not missing).
BaseValue(label, f) ==
    CASE label = "M1_tx" -> f
      [] label = "M1_ty" -> 0
      [] label = "M1_tz" -> 1
      [] label = "M2_tx" -> 1
      [] label = "M2_ty" -> f - 1
      [] label = "M2_tz" -> 0
      [] label = "q1"    -> f
      [] label = "q2"    -> 1 - f
      [] OTHER           -> 0

\* The data row of frame f: one value per label after "time".  A label that
\* is repeated later in the labels holds a different (stale) value.
DataRow(lbls, f, missing) ==
    [c \in 1..(Len(lbls) - 1) |->
        LET label == lbls[c + 1] IN
        IF label \in missing THEN NaN
        ELSE IF \E j \in (c + 2)..Len(lbls) : lbls[j] = label
             THEN BaseValue(label, f) + 2
             ELSE BaseValue(label, f)]

\* The storage whose odd frames are complete and whose even frames all
\* lack the labels in missing.
Storage(lbls, missing) ==
    [f \in Frames |-> DataRow(lbls, f, IF f % 2 = 1 THEN {} ELSE missing)]

\* AbstractCoordinate::getDefaultValue of each coordinate.
DefaultValues == << 0, 1, -1 >>

\* A model whose coordinates in lockedSet are locked, in constrainedSet
\* constrained and in clampedSet clamped to their range; every
\* coordinate holds its default value and the kinematics are up to date.
NewModel(lockedSet, constrainedSet, clampedSet) ==
    [value       |-> [c \in Coords |-> DefaultValues[c]],
     locked      |-> [c \in Coords |-> c \in lockedSet],
     constrained |-> [c \in Coords |-> c \in constrainedSet],
     clamped     |-> [c \in Coords |-> c \in clampedSet],
     realized    |-> TRUE,
     staleQuery  |-> FALSE]

---------------------------------------------------------------------------
(* The constructor: buildMarkerMap, buildCoordinateMap, setNumParameters.  *)

\* IKTarget::_perturbation, the finite-difference step (the unit of length).
perturbation == 1

\* The storage label of a marker's first component.
MarkerLabel(markerName) == markerName \o "_tx"

\* A column that is the label's own index.
LabelIndexColumn(j) == j

\* newMarker->experimentalColumn for a label found at index j: the storage
\* row does not hold the time column.
MarkerColumn(j) == j - 1

\* A new markerToSolve.  Its positions and validity are set by
\* prepareToSolve and by the evaluations.
NewMarker(markerName, j, w) ==
    [marker |-> markerName,
     experimentalColumn |-> MarkerColumn(j),
     weight |-> w,
     computedPosition |-> <<0, 0, 0>>,
     experimentalPosition |-> <<0, 0, 0>>,
     validExperimentalPosition |-> FALSE]

\* A pass that drops a task of weight zero before looking its marker up.
WeightFirstStep(t, aNameArray) ==
    IF t.kind # "marker" \/ ~t.apply \/ t.weight = 0 THEN [op |-> "skip"]
    ELSE IF t.name \notin ModelMarkers THEN [op |-> "marker not found in model"]
    ELSE LET j == findIndex(aNameArray, t.name \o "_tx") IN
         IF j < 0 THEN [op |-> "marker not found in trc file"]
         ELSE [op |-> "append", marker |-> NewMarker(t.name, j, t.weight)]

\* One pass of buildMarkerMap's loop over task t: "skip" (continue), an
\* error (the Exception thrown) or "append" with the new marker.
MarkerTaskStep(t, aNameArray) ==
    IF t.kind # "marker" \/ ~t.apply THEN [op |-> "skip"]
    ELSE IF t.name \notin ModelMarkers THEN [op |-> "marker not found in model"]
    ELSE IF t.weight = 0 THEN [op |-> "skip"]
    ELSE LET j == findIndex(aNameArray, MarkerLabel(t.name)) IN
         IF j < 0 THEN [op |-> "marker not found in trc file"]
         ELSE [op |-> "append", marker |-> NewMarker(t.name, j, t.weight)]

\* buildMarkerMap: the markers built from the task set, or the error thrown
\* at the first task that fails.
buildMarkerMap(tasks, aNameArray) ==
    LET RECURSIVE Loop(_, _)
        Loop(i, acc) ==
            IF i > Len(tasks) THEN [error |-> "", markers |-> acc]
            ELSE LET r == MarkerTaskStep(tasks[i], aNameArray) IN
                 IF r.op = "skip" THEN Loop(i + 1, acc)
                 ELSE IF r.op = "append" THEN Loop(i + 1, Append(acc, r.marker))
                 ELSE [error |-> r.op, markers |-> <<>>]
    IN  Loop(1, <<>>)

\* A classifier that looks at the lock alone.
IsPrescribedLockedOnly(m, c) == m.locked[c]

\* info->prescribed of a coordinate of model m.
IsPrescribed(m, c) == m.locked[c] \/ m.constrained[c]

\* The coordinateInfo of coordinate c before any task is looked at.
NewCoordinateInfo(m, c) ==
    [prescribed |-> IsPrescribed(m, c),
     experimentalColumn |-> -1,
     constantExperimentalValue |-> DefaultValues[c],
     weight |-> 0,
     experimentalValue |-> 0]

\* One pass of buildCoordinateMap's loop over task t on the infos all:
\* the infos updated, or the error thrown.
CoordinateTaskStep(t, all, aNameArray) ==
    IF t.kind # "coord" \/ ~t.apply THEN [error |-> "", all |-> all]
    ELSE LET coordIndex == getIndex(t.name) IN
         IF coordIndex < 0
         THEN [error |-> "coordinate not found in model", all |-> all]
         ELSE LET c == coordIndex + 1
                  j == rfindIndex(aNameArray, t.name)
              IN  IF t.valueType = "FromFile" /\ j < 0
                  THEN [error |-> "no column found for coordinate", all |-> all]
                  ELSE [error |-> "",
                        all |-> [all EXCEPT
                           ![c].experimentalColumn =
                               IF t.valueType = "FromFile" THEN j - 1 ELSE @,
                           ![c].constantExperimentalValue =
                               IF t.valueType = "ManualValue" THEN t.value ELSE @,
                           ![c].weight = t.weight]]

CoordSeq == [c \in Coords |-> c]

\* Is coordinate c of the infos all put into _unprescribedWeightedQs?
IsWeightedUnprescribed(all, c) == ~all[c].prescribed /\ all[c].weight # 0

\* buildCoordinateMap: the infos after all tasks and the three sets they are
\* filtered into, or the error thrown.
buildCoordinateMap(tasks, aNameArray, m) ==
    LET RECURSIVE Loop(_, _)
        Loop(i, all) ==
            IF i > Len(tasks) THEN [error |-> "", all |-> all]
            ELSE LET r == CoordinateTaskStep(tasks[i], all, aNameArray) IN
                 IF r.error # "" THEN r ELSE Loop(i + 1, r.all)
        res == Loop(1, [c \in Coords |-> NewCoordinateInfo(m, c)])
    IN  IF res.error # ""
        THEN [error |-> res.error, all |-> res.all, prescribed |-> <<>>,
              unprescribed |-> <<>>, weighted |-> <<>>]
        ELSE [error |-> "", all |-> res.all,
              prescribed |-> SelectSeq(CoordSeq, LAMBDA c : res.all[c].prescribed),
              unprescribed |-> SelectSeq(CoordSeq, LAMBDA c : ~res.all[c].prescribed),
              weighted |-> SelectSeq(CoordSeq,
                                     LAMBDA c : IsWeightedUnprescribed(res.all, c))]

NoReport ==
    [printed |-> FALSE, totalWeightedSquaredErrors |-> 0,
     totalMarkerSquaredErrors |-> 0, markerDivisor |-> 0,
     totalCoordinateSquaredErrors |-> 0, coordinateDivisor |-> 0,
     worstMarker |-> "", worstCoordinate |-> ""]

\* A call op with status: x is the parameter vector it was given (or, for
\* the solver, returns), f the objective value returned, qGuess the array it
\* filled, dpdx the gradient it filled, report what it printed.
Call(op, status, x) ==
    [op |-> op, status |-> status, x |-> x, f |-> 0, qGuess |-> <<>>,
     dpdx |-> <<>>,
     report |-> NoReport]

NoCall == Call("none", "none", <<>>)

NoWorst ==
    [worstMarkerError |-> 0, nameOfWorstMarker |-> "",
     worstCoordinateError |-> 0, nameOfWorstCoordinate |-> ""]

Idle ==
    [pc |-> "idle", iter |-> 0, results |-> <<>>, J |-> <<>>, dQ |-> <<>>,
     dError |-> <<>>, row |-> 0, backtracks |-> 0,
     previousDErrorNormSq |-> 0, currentDErrorNormSq |-> 0,
     tempDErrorNormSq |-> 0, deltaAboveTol |-> FALSE]

\* IKTarget::IKTarget.  Either map builder may throw, and then there is no
\* target.
Construct ==
    /\ phase = "new"
    /\ LET mm == buildMarkerMap(taskSet, labels)
           cm == buildCoordinateMap(taskSet, labels, model)
           err == IF mm.error # "" THEN mm.error ELSE cm.error
       IN  IF err # ""
           THEN /\ phase' = "failed"
                /\ ctorError' = err
                /\ UNCHANGED <<markers, info, prescribedQs, unprescribedQs,
                               unprescribedWeightedQs, numParameters, dx>>
           ELSE /\ phase' = "ready"
                /\ ctorError' = ""
                /\ markers' = mm.markers
                /\ info' = cm.all
                /\ prescribedQs' = cm.prescribed
                /\ unprescribedQs' = cm.unprescribed
                /\ unprescribedWeightedQs' = cm.weighted
                /\ numParameters' = Len(cm.unprescribed)
                /\ dx' = [i \in 1..Len(cm.unprescribed) |-> perturbation]
    /\ printPerformanceValues' = FALSE
    /\ UNCHANGED <<labels, storage, taskSet, model, interrupted, worst, frame,
                   lastCall, it>>

\* The state before the constructor runs, for the given inputs.
InitWith(tasks, lbls, stor, m) ==
    /\ taskSet = tasks
    /\ labels = lbls
    /\ storage = stor
    /\ model = m
    /\ phase = "new"
    /\ ctorError = ""
    /\ markers = <<>>
    /\ info = [c \in Coords |-> NewCoordinateInfo(m, c)]
    /\ prescribedQs = <<>>
    /\ unprescribedQs = <<>>
    /\ unprescribedWeightedQs = <<>>
    /\ numParameters = 0
    /\ dx = <<>>
    /\ interrupted = FALSE
    /\ printPerformanceValues = FALSE
    /\ worst = NoWorst
    /\ frame = 0
    /\ lastCall = NoCall
    /\ it = Idle

\* The constructor alone, on every task set of up to MaxTasks tasks.
InitBuild ==
    \E tasks \in BuildTaskSets, lbls \in {LabelsStd, LabelsOld, LabelsDup},
       lockedSet \in SUBSET Coords, constrainedSet \in {{}, {2}} :
        InitWith(tasks, lbls, Storage(lbls, {}),
                 NewModel(lockedSet, constrainedSet, {}))

NextBuild == Construct

SpecBuild == InitBuild /\ [][NextBuild]_vars

---------------------------------------------------------------------------
(* The model collaborator: coordinates and forward kinematics.             *)

\* The range of every coordinate is [0, MaxQ - 1]: the largest parameter
\* value enumerated lies outside it.
Clamp(x) == IF x < 0 THEN 0 ELSE IF x > MaxQ - 1 THEN MaxQ - 1 ELSE x

\* AbstractCoordinate::setValue(aValue, aRealize) on coordinate c of model m:
\* a locked coordinate keeps its value, a clamped one takes the value pulled
\* into its range; aRealize tells whether the dependent kinematics are
\* recomputed now.
setValue(m, c, aValue, aRealize) ==
    IF m.locked[c] THEN m
    ELSE [m EXCEPT !.value[c] = IF m.clamped[c] THEN Clamp(aValue) ELSE aValue,
                   !.realized = aRealize]

setLocked(m, c, aLocked) == [m EXCEPT !.locked[c] = aLocked]

setClamped(m, c, aClamped) == [m EXCEPT !.clamped[c] = aClamped]

\* AbstractDynamicsEngine::transformPosition of a marker's offset into the
\* world frame, as a function of the coordinate values v.  M2 moves
\* nonlinearly with q1.
transformPosition(markerName, v) ==
    IF markerName = "M1" THEN << v[1] + v[2], v[3], 1 >>
    ELSE << v[1] * v[1], v[2], v[3] >>

\* The model after a forward-kinematics query: remembers a query made while
\* the last coordinate change had skipped the recomputation.
Queried(m) == [m EXCEPT !.staleQuery = @ \/ ~m.realized]

---------------------------------------------------------------------------
(* prepareToSolve.                                                         *)

\* The value a prescribed or file-driven coordinate takes from the data row.
FrameValue(inf, dataRow) ==
    IF inf.experimentalColumn >= 0
    THEN getDataValue(dataRow, inf.experimentalColumn, 0)
    ELSE inf.constantExperimentalValue

\* A pass that sets the value without releasing the lock.
PrescribeLocked(m, c, value) == setValue(m, c, value, TRUE)

\* One pass of the loop over the prescribed coordinates (coordinate c).
PrescribeStep(m, c, value) ==
    LET lockedState == m.locked[c]
        m1 == setLocked(m, c, FALSE)
        m2 == setValue(m1, c, value, TRUE)
    IN  setLocked(m2, c, lockedState)

\* The loop over the prescribed coordinates.
PrescribeAll(m, inf, dataRow) ==
    LET RECURSIVE Loop(_, _)
        Loop(i, mm) ==
            IF i > Len(prescribedQs) THEN mm
            ELSE Loop(i + 1,
                      PrescribeStep(mm, prescribedQs[i],
                                    FrameValue(inf[prescribedQs[i]], dataRow)))
    IN  Loop(1, m)

\* A guess that is always the coordinate's current value.
CurrentValueGuess(m, inf, dataRow, i) == m.value[unprescribedQs[i]]

\* The initial guess of parameter i: the value from file if there is a
\* column, else the coordinate's current value.
InitialGuess(m, inf, dataRow, i) ==
    LET c == unprescribedQs[i] IN
    IF inf[c].experimentalColumn >= 0
    THEN getDataValue(dataRow, inf[c].experimentalColumn, 0)
    ELSE m.value[c]

\* A validity test that looks at the first component alone.
FirstComponentValid(pos) == ~isNAN(pos[1])

\* validExperimentalPosition of an experimental position.
ValidPosition(pos) == ~(isNAN(pos[1]) \/ isNAN(pos[2]) \/ isNAN(pos[3]))

\* The loop over the markers: the three components are read from the
\* marker's column and the two after it.
BindMarker(mk, dataRow) ==
    LET col == mk.experimentalColumn
        pos == << getDataValue(dataRow, col, mk.experimentalPosition[1]),
                  getDataValue(dataRow, col + 1, mk.experimentalPosition[2]),
                  getDataValue(dataRow, col + 2, mk.experimentalPosition[3]) >>
    IN  [mk EXCEPT !.experimentalPosition = pos,
                   !.validExperimentalPosition = ValidPosition(pos)]

prepareToSolve(aIndex) ==
    /\ phase = "ready"
    /\ it.pc = "idle"
    /\ LET dataRow == storage[aIndex]
           m1 == PrescribeAll(model, info, dataRow)
           guess == [i \in 1..Len(unprescribedQs) |->
                        InitialGuess(m1, info, dataRow, i)]
       IN  /\ model' = m1
           /\ lastCall' = [Call("prepareToSolve", "ok", <<>>) EXCEPT
                               !.qGuess = guess]
           /\ info' = [c \in Coords |->
                 IF ~info[c].prescribed /\ info[c].weight # 0
                 THEN [info[c] EXCEPT !.experimentalValue =
                         IF info[c].experimentalColumn >= 0
                         THEN getDataValue(dataRow, info[c].experimentalColumn, 0)
                         ELSE info[c].constantExperimentalValue]
                 ELSE info[c]]
           /\ markers' = [i \in 1..Len(markers) |-> BindMarker(markers[i], dataRow)]
    /\ frame' = aIndex
    /\ UNCHANGED <<labels, storage, taskSet, phase, ctorError, prescribedQs,
                   unprescribedQs, unprescribedWeightedQs, numParameters, dx,
                   interrupted, printPerformanceValues, worst, it>>

---------------------------------------------------------------------------
(* The residual evaluator: objectiveFunc and printPerformance.             *)

\* Parameter vectors handed in by the callers.
ParamVectors == [1..numParameters -> 0..MaxQ]

\* The recomputation requested at the first value of the batch only.
RealizeAtFirst(i) == i = 1

\* The aRealize argument of the i-th setValue of a batch (105, 265, 328,
\* 375, 441): set at the last parameter.
RealizeAt(i) == i = numParameters

\* The loop applying x to the unprescribed coordinates: only the last
\* setValue asks for the kinematics to be recomputed.
ApplyParameters(m, x) ==
    LET RECURSIVE Loop(_, _)
        Loop(i, mm) ==
            IF i > numParameters THEN mm
            ELSE Loop(i + 1, setValue(mm, unprescribedQs[i], x[i],
                                      RealizeAt(i)))
    IN  Loop(1, m)

\* The squared distance between two positions.
SquaredError(a, b) ==
    (a[1] - b[1]) * (a[1] - b[1]) + (a[2] - b[2]) * (a[2] - b[2])
        + (a[3] - b[3]) * (a[3] - b[3])

\* A marker term that leaves the weight out.
UnweightedMarkerError(mk, markerError) == markerError

\* What one marker adds to totalWeightedSquaredErrors.
WeightedMarkerError(mk, markerError) == mk.weight * markerError

\* Is marker mk left out of an evaluation's marker loop?
SkipMarker(mk) == ~mk.validExperimentalPosition

\* The marker loop of an evaluation in model m.  With store, the computed
\* position of every marker looked at is overwritten by its transformed
\* position (objectiveFunc); without, the stored one is used as it is (the
\* tally that ends iterativeOptimization).
TallyMarkers(m, mks, store) ==
    LET RECURSIVE Loop(_, _)
        Loop(i, acc) ==
            IF i > Len(mks) THEN acc
            ELSE IF SkipMarker(mks[i]) THEN Loop(i + 1, acc)
            ELSE LET globalPos == transformPosition(mks[i].marker, m.value)
                     computed == IF store THEN globalPos
                                 ELSE mks[i].computedPosition
                     markerError ==
                         SquaredError(mks[i].experimentalPosition, computed)
                     larger == markerError > acc.maxMarkerError
                 IN  Loop(i + 1,
                       [markers |-> IF store
                                    THEN [acc.markers EXCEPT
                                            ![i].computedPosition = globalPos]
                                    ELSE acc.markers,
                        totalMarkerSquaredErrors |->
                            acc.totalMarkerSquaredErrors + markerError,
                        totalWeightedSquaredErrors |->
                            acc.totalWeightedSquaredErrors
                                + WeightedMarkerError(mks[i], markerError),
                        maxMarkerError |->
                            IF larger THEN markerError ELSE acc.maxMarkerError,
                        worstMarker |-> IF larger THEN i ELSE acc.worstMarker,
                        queried |-> TRUE])
    IN  Loop(1, [markers |-> mks, totalMarkerSquaredErrors |-> 0,
                 totalWeightedSquaredErrors |-> 0, maxMarkerError |-> 0,
                 worstMarker |-> 0, queried |-> FALSE])

\* What one weighted coordinate adds to totalWeightedSquaredErrors.
WeightedCoordinateError(ci, coordinateError) == ci.weight * coordinateError

\* The loop over _unprescribedWeightedQs of an evaluation in model m.
TallyCoordinates(m, inf) ==
    LET RECURSIVE Loop(_, _)
        Loop(i, acc) ==
            IF i > Len(unprescribedWeightedQs) THEN acc
            ELSE LET c == unprescribedWeightedQs[i]
                     err == inf[c].experimentalValue - m.value[c]
                     coordinateError == err * err
                     larger == coordinateError > acc.maxCoordinateError
                 IN  Loop(i + 1,
                       [totalCoordinateSquaredErrors |->
                            acc.totalCoordinateSquaredErrors + coordinateError,
                        totalWeightedSquaredErrors |->
                            acc.totalWeightedSquaredErrors
                                + WeightedCoordinateError(inf[c], coordinateError),
                        maxCoordinateError |->
                            IF larger THEN coordinateError
                            ELSE acc.maxCoordinateError,
                        worstCoordinate |-> IF larger THEN i ELSE acc.worstCoordinate])
    IN  Loop(1, [totalCoordinateSquaredErrors |-> 0,
                 totalWeightedSquaredErrors |-> 0, maxCoordinateError |-> 0,
                 worstCoordinate |-> 0])

\* The number of markers the printed RMS marker error is averaged over.
RmsMarkerCount(mks) == Len(mks)

\* What the performance print-out writes for the tallies tm and tc: the
\* total, each RMS as the summed squared error and the count it is divided
\* by (printed only when the sum is positive), and the worst offenders.
Printed(tm, tc, mks) ==
    [printed |-> TRUE,
     totalWeightedSquaredErrors |->
         tm.totalWeightedSquaredErrors + tc.totalWeightedSquaredErrors,
     totalMarkerSquaredErrors |-> tm.totalMarkerSquaredErrors,
     markerDivisor |->
         IF tm.totalMarkerSquaredErrors > 0 THEN RmsMarkerCount(mks) ELSE 0,
     totalCoordinateSquaredErrors |-> tc.totalCoordinateSquaredErrors,
     coordinateDivisor |->
         IF tc.totalCoordinateSquaredErrors > 0
         THEN Len(unprescribedWeightedQs) ELSE 0,
     worstMarker |->
         IF tm.totalMarkerSquaredErrors > 0 /\ tm.worstMarker > 0
         THEN mks[tm.worstMarker].marker ELSE "",
     worstCoordinate |->
         IF tc.totalCoordinateSquaredErrors > 0 /\ tc.worstCoordinate > 0
         THEN CoordNames[unprescribedWeightedQs[tc.worstCoordinate]] ELSE ""]

\* setErrorReportingQuantities as called with the tallies tm and tc.
setErrorReportingQuantities(tm, tc, mks) ==
    [worstMarkerError |-> tm.maxMarkerError,
     nameOfWorstMarker |->
         IF tm.worstMarker = 0 THEN "" ELSE mks[tm.worstMarker].marker,
     worstCoordinateError |-> tc.maxCoordinateError,
     nameOfWorstCoordinate |->
         IF tc.worstCoordinate = 0 THEN ""
         ELSE CoordNames[unprescribedWeightedQs[tc.worstCoordinate]]]

\* An evaluator that never looks at the cancellation flag.
NeverThrows == FALSE

\* Does objectiveFunc throw InterruptedException?
ThrowsInterrupted == interrupted

\* The body of objectiveFunc(x, new_parameters, f), entered with
\* _printPerformanceValues = printing.
ObjectiveBody(x, printing, op) ==
    IF ThrowsInterrupted
    THEN /\ lastCall' = Call(op, "interrupted", <<>>)
         /\ UNCHANGED <<model, markers, worst>>
    ELSE LET m1 == ApplyParameters(model, x)
             tm == TallyMarkers(m1, markers, TRUE)
             tc == TallyCoordinates(m1, info)
         IN  /\ model' = IF tm.queried THEN Queried(m1) ELSE m1
             /\ markers' = tm.markers
             /\ worst' = IF printing
                         THEN setErrorReportingQuantities(tm, tc, markers)
                         ELSE worst
             /\ lastCall' =
                  [Call(op, "ok", x) EXCEPT
                     !.f = tm.totalWeightedSquaredErrors
                             + tc.totalWeightedSquaredErrors,
                     !.report = IF printing THEN Printed(tm, tc, markers)
                                ELSE NoReport]

\* Is a frame bound, and no solve under way?  The evaluations read
\* validExperimentalPosition and experimentalValue, which prepareToSolve
\* sets.
Callable == phase = "ready" /\ frame > 0 /\ it.pc = "idle"

objectiveFunc(x) ==
    /\ Callable
    /\ ObjectiveBody(x, printPerformanceValues, "objectiveFunc")
    /\ UNCHANGED <<labels, storage, taskSet, phase, ctorError, info,
                   prescribedQs, unprescribedQs, unprescribedWeightedQs,
                   numParameters, dx, interrupted, printPerformanceValues,
                   frame, it>>

\* printPerformance(x): the flag is set, objectiveFunc is called, and the
\* flag is cleared only when the call returns.
printPerformance(x) ==
    /\ Callable
    /\ ObjectiveBody(x, TRUE, "printPerformance")
    /\ printPerformanceValues' = ThrowsInterrupted
    /\ UNCHANGED <<labels, storage, taskSet, phase, ctorError, info,
                   prescribedQs, unprescribedQs, unprescribedWeightedQs,
                   numParameters, dx, interrupted, frame, it>>

\* The cooperative cancellation flag is set from outside, at any time.
interrupt ==
    /\ phase = "ready"
    /\ ~interrupted
    /\ interrupted' = TRUE
    /\ UNCHANGED <<labels, storage, taskSet, model, phase, ctorError, markers,
                   info, prescribedQs, unprescribedQs, unprescribedWeightedQs,
                   numParameters, dx, printPerformanceValues, worst, frame,
                   lastCall, it>>

---------------------------------------------------------------------------
(* The gradient: gradientFunc.                                             *)

\* One evaluation of objectiveFunc at x in model m with markers mks, when
\* nothing is printed: the value f and the model and markers it leaves.
EvalAt(m, mks, x) ==
    LET m1 == ApplyParameters(m, x)
        tm == TallyMarkers(m1, mks, TRUE)
        tc == TallyCoordinates(m1, info)
    IN  [f |-> tm.totalWeightedSquaredErrors + tc.totalWeightedSquaredErrors,
         model |-> IF tm.queried THEN Queried(m1) ELSE m1,
         markers |-> tm.markers]

\* A step twice the one allocated at construction.
DoubledDx(i) == 2 * dx[i]

\* The step gradientFunc hands over for parameter i: &_dx[0].
GradientDx(i) == dx[i]

\* rdOptimizationTarget::CentralDifferences(this, dx, x, dpdx): for each
\* parameter the objective is evaluated at x + dx_i and at x - dx_i, and
\* dpdx[i] is (pf - pb) * 0.5/dx_i, kept as numerator and denominator.
CentralDifferences(m, mks, x) ==
    LET RECURSIVE Loop(_, _)
        Loop(i, acc) ==
            IF i > numParameters THEN acc
            ELSE LET fwd == EvalAt(acc.model, acc.markers,
                                   [x EXCEPT ![i] = x[i] + GradientDx(i)])
                     bwd == EvalAt(fwd.model, fwd.markers,
                                   [x EXCEPT ![i] = x[i] - GradientDx(i)])
                 IN  Loop(i + 1,
                       [model |-> bwd.model, markers |-> bwd.markers,
                        dpdx |-> Append(acc.dpdx,
                                        [num |-> fwd.f - bwd.f,
                                         den |-> 2 * GradientDx(i)])])
    IN  Loop(1, [model |-> m, markers |-> mks, dpdx |-> <<>>])

\* gradientFunc(x, new_parameters, dpdx).  The first objectiveFunc it
\* reaches throws when the target is interrupted.
gradientFunc(x) ==
    /\ Callable
    /\ IF ThrowsInterrupted /\ numParameters > 0
       THEN /\ lastCall' = Call("gradientFunc", "interrupted", <<>>)
            /\ UNCHANGED <<model, markers>>
       ELSE LET cd == CentralDifferences(model, markers, x)
            IN  /\ model' = cd.model
                /\ markers' = cd.markers
                /\ lastCall' = [Call("gradientFunc", "ok", x) EXCEPT
                                    !.dpdx = cd.dpdx]
    /\ UNCHANGED <<labels, storage, taskSet, phase, ctorError, info,
                   prescribedQs, unprescribedQs, unprescribedWeightedQs,
                   numParameters, dx, interrupted, printPerformanceValues,
                   worst, frame, it>>

---------------------------------------------------------------------------
(* The Jacobian builder: createJacobian.                                   *)

\* The length of the residual vector and the row count of the Jacobian.
NumRows(mks) == 3 * Len(mks) + Len(unprescribedWeightedQs)

Zeros(n) == [k \in 1..n |-> 0]

\* markerWeights(m) of createJacobian.
MarkerSqrtWeight(mk) ==
    IF mk.validExperimentalPosition THEN Sqrt(mk.weight) ELSE 0

\* pf after the marker loop of one perturbation, in model m.
PerturbedMarkers(pf, m, mks) ==
    [k \in 1..Len(pf) |->
        IF k <= 3 * Len(mks) /\ mks[(k + 2) \div 3].validExperimentalPosition
        THEN LET mk == mks[(k + 2) \div 3]
                 r == k - 3 * ((k + 2) \div 3 - 1)
             IN  MarkerSqrtWeight(mk)
                   * (transformPosition(mk.marker, m.value)[r]
                        - mk.computedPosition[r])
        ELSE pf[k]]

\* A row for every unprescribed coordinate, weighted or not.
HasRowAlways(ci) == TRUE

\* Has unprescribed coordinate ci a row of its own (a nonzero weight)?
HasRow(ci) == ci.weight # 0

\* The weight itself in the coordinate's row.
UnrootedRowEntry(ci) == ci.weight

\* Line 924: the entry of a weighted coordinate's own row and column.
CoordinateRowEntry(ci) == Sqrt(ci.weight)

\* createJacobian(jointQs, J) in model m: the matrix written (a sequence
\* of columns), the model it leaves, and the final value of row.
createJacobian(jointQs, Jin, m, mks, inf) ==
    LET RECURSIVE Loop(_, _)
        Loop(i, acc) ==
            IF i > numParameters THEN acc
            ELSE LET c == unprescribedQs[i]
                     clampedState == acc.model.clamped[c]
                     m1 == setClamped(acc.model, c, FALSE)
                     m2 == setValue(m1, c, jointQs[i] + dx[i], TRUE)
                     pf == PerturbedMarkers(acc.pf, m2, mks)
                     any == \E k \in 1..Len(mks) : mks[k].validExperimentalPosition
                     m3 == setValue(IF any THEN Queried(m2) ELSE m2, c,
                                    jointQs[i], FALSE)
                     m4 == setClamped(m3, c, clampedState)
                     col == [k \in 1..Len(pf) |-> pf[k] \div dx[i]]
                 IN  Loop(i + 1,
                       [J |-> [acc.J EXCEPT ![i] =
                                 IF HasRow(inf[c])
                                 THEN [col EXCEPT ![acc.row + 1] = CoordinateRowEntry(inf[c])]
                                 ELSE col],
                        model |-> m4,
                        pf |-> pf,
                        row |-> IF HasRow(inf[c]) THEN acc.row + 1 ELSE acc.row])
    IN  Loop(1, [J |-> Jin, model |-> m, pf |-> Zeros(NumRows(mks)),
                 row |-> 3 * Len(mks)])

---------------------------------------------------------------------------
(* The iterative solver: iterativeOptimization.                            *)

\* Fixed parameters of the solver.
maxIter == 1000

\* errorTol is 1e-4, a tenth of the unit: ErrorTolNum / ErrorTolDen.
ErrorTolNum == 1

ErrorTolDen == 10

\* The residual vector after the marker and coordinate loops in model m:
\* rows of markers left out keep what dError held.
Residual(dError, m, mks, inf) ==
    LET RECURSIVE QLoop(_, _)
        QLoop(i, acc) ==
            IF i > numParameters THEN acc
            ELSE LET c == unprescribedQs[i] IN
                 IF HasRow(inf[c])
                 THEN QLoop(i + 1,
                        [dError |-> [acc.dError EXCEPT ![acc.row + 1] =
                            Sqrt(inf[c].weight)
                              * (inf[c].experimentalValue - m.value[c])],
                         row |-> acc.row + 1])
                 ELSE QLoop(i + 1, acc)
        newMarkers == [i \in 1..Len(mks) |->
            IF SkipMarker(mks[i]) THEN mks[i]
            ELSE [mks[i] EXCEPT
                    !.computedPosition =
                        transformPosition(mks[i].marker, m.value)]]
        markerRows == [k \in 1..Len(dError) |->
            IF k <= 3 * Len(mks) /\ ~SkipMarker(mks[(k + 2) \div 3])
            THEN LET mk == newMarkers[(k + 2) \div 3]
                     r == k - 3 * ((k + 2) \div 3 - 1)
                 IN  Sqrt(mk.weight)
                       * (mk.experimentalPosition[r] - mk.computedPosition[r])
            ELSE dError[k]]
        q == QLoop(1, [dError |-> markerRows, row |-> 3 * Len(mks)])
    IN  [markers |-> newMarkers, dError |-> q.dError, row |-> q.row,
         queried |-> \E k \in 1..Len(mks) : ~SkipMarker(mks[k])]

\* dError.norm(), squared.
NormSq(dError) == SumSeq([k \in 1..Len(dError) |-> dError[k] * dError[k]])

\* abs(currentDErrorNorm - previousDErrorNorm) > errorTol, on the squared
\* norms a and b (in 0..10000): with hi >= lo,
\*   sqrt(hi) - sqrt(lo) > n/d  iff  d*d*(hi - lo) - n*n > 2*n*d*sqrt(lo).
DeltaAboveTol(a, b) ==
    LET hi == IF a > b THEN a ELSE b
        lo == IF a > b THEN b ELSE a
        lhs == ErrorTolDen * ErrorTolDen * (hi - lo) - ErrorTolNum * ErrorTolNum
        rhs == 2 * ErrorTolNum * ErrorTolDen
    IN  /\ lhs > 0
        /\ \/ lhs >= 200 * rhs
           \/ lhs * lhs > rhs * rhs * lo

\* A backtracking test that lets every step through.
NeverExceeds(tempNormSq, previousNormSq) == FALSE

\* A loop test that never looks at the iteration count.
IgnoresCap(deltaAbove, iter) == deltaAbove

\* The test of the solver's loop: deltaDErrorNorm>errorTol && iter<maxIter.
LoopContinues(deltaAbove, iter) == deltaAbove /\ iter < maxIter

\* Must the step be reduced?  (The test of the backtracking loop.)
ExceedsPrevious(tempNormSq, previousNormSq) == tempNormSq > previousNormSq

\* dQ*0.5, rounded toward zero: repeated, it ends at the zero step, as the
\* halved floating-point step ends by no longer changing results + dQ.
Half(d) == IF d >= 0 THEN d \div 2 ELSE -((-d) \div 2)

\* The solutions dgelsy may return for dQ: any step that keeps the
\* parameters within the values enumerated.
\* From a parameter beyond them, dgelsy's step is at most one unit.
Steps(results) ==
    { dq \in [1..numParameters -> (-MaxQ)..MaxQ] :
        \A i \in 1..numParameters :
            /\ results[i] + dq[i] >= 0
            /\ IF results[i] <= MaxQ THEN results[i] + dq[i] <= MaxQ
               ELSE dq[i] >= -1 /\ dq[i] <= 1 }

Plus(a, b) == [i \in 1..Len(a) |-> a[i] + b[i]]

\* Lines 222-298: the locals are set up and the first dError is computed.
IterStart(results) ==
    /\ Callable
    /\ LET m1 == ApplyParameters(model, results)
           r == Residual(Zeros(NumRows(markers)), m1, markers, info)
       IN  /\ model' = IF r.queried THEN Queried(m1) ELSE m1
           /\ markers' = r.markers
           /\ it' = [pc |-> "loop", iter |-> 0, results |-> results,
                     J |-> [i \in 1..numParameters |-> Zeros(NumRows(markers))],
                     dQ |-> Zeros(numParameters),
                     dError |-> r.dError, row |-> r.row, backtracks |-> 0,
                     previousDErrorNormSq |-> 0,
                     currentDErrorNormSq |-> NormSq(r.dError),
                     tempDErrorNormSq |-> 0,
                     deltaAboveTol |-> TRUE]
    /\ lastCall' = Call("iterativeOptimization", "running", <<>>)
    /\ UNCHANGED <<labels, storage, taskSet, phase, ctorError, info,
                   prescribedQs, unprescribedQs, unprescribedWeightedQs,
                   numParameters, dx, interrupted, printPerformanceValues,
                   worst, frame>>

\* Lines 301-313: the loop is entered once more and the Jacobian is built
\* at the current parameters.
JacobianStep ==
    /\ it.pc = "loop"
    /\ LoopContinues(it.deltaAboveTol, it.iter)
    /\ LET cj == createJacobian(it.results, it.J, model, markers, info)
       IN  /\ model' = cj.model
           /\ it' = [it EXCEPT !.pc = "solve",
                               !.previousDErrorNormSq = it.currentDErrorNormSq,
                               !.J = cj.J, !.row = cj.row]
    /\ UNCHANGED <<labels, storage, taskSet, phase, ctorError, markers, info,
                   prescribedQs, unprescribedQs, unprescribedWeightedQs,
                   numParameters, dx, interrupted, printPerformanceValues,
                   worst, frame, lastCall>>

\* Lines 314-360: dgelsy solves for dQ and results + dQ is tried.
TrialStep ==
    /\ it.pc = "solve"
    /\ \E dq \in Steps(it.results) :
         LET m1 == ApplyParameters(model, Plus(it.results, dq))
             r == Residual(it.dError, m1, markers, info)
         IN  /\ model' = IF r.queried THEN Queried(m1) ELSE m1
             /\ markers' = r.markers
             /\ it' = [it EXCEPT !.pc = "check", !.dQ = dq,
                                 !.dError = r.dError, !.row = r.row,
                                 !.backtracks = 0,
                                 !.tempDErrorNormSq = NormSq(r.dError)]
    /\ UNCHANGED <<labels, storage, taskSet, phase, ctorError, info,
                   prescribedQs, unprescribedQs, unprescribedWeightedQs,
                   numParameters, dx, interrupted, printPerformanceValues,
                   worst, frame, lastCall>>

\* Lines 366-409: one pass of the backtracking loop.
Backtrack ==
    /\ it.pc = "check"
    /\ ExceedsPrevious(it.tempDErrorNormSq, it.previousDErrorNormSq)
    /\ LET dq == [i \in 1..numParameters |-> Half(it.dQ[i])]
           m1 == ApplyParameters(model, Plus(it.results, dq))
           r == Residual(it.dError, m1, markers, info)
       IN  /\ model' = IF r.queried THEN Queried(m1) ELSE m1
           /\ markers' = r.markers
           /\ it' = [it EXCEPT !.dQ = dq, !.dError = r.dError, !.row = r.row,
                               !.backtracks = IF @ < 2 THEN @ + 1 ELSE @,
                               !.tempDErrorNormSq = NormSq(r.dError)]
    /\ UNCHANGED <<labels, storage, taskSet, phase, ctorError, info,
                   prescribedQs, unprescribedQs, unprescribedWeightedQs,
                   numParameters, dx, interrupted, printPerformanceValues,
                   worst, frame, lastCall>>

\* Lines 412-431: the step is accepted.
Accept ==
    /\ it.pc = "check"
    /\ ~ExceedsPrevious(it.tempDErrorNormSq, it.previousDErrorNormSq)
    /\ it' = [it EXCEPT !.pc = "loop",
                        !.currentDErrorNormSq = NormSq(it.dError),
                        !.deltaAboveTol = DeltaAboveTol(NormSq(it.dError),
                                                        it.previousDErrorNormSq),
                        !.results = Plus(it.results, it.dQ),
                        !.iter = it.iter + 1]
    /\ UNCHANGED <<labels, storage, taskSet, model, phase, ctorError, markers,
                   info, prescribedQs, unprescribedQs, unprescribedWeightedQs,
                   numParameters, dx, interrupted, printPerformanceValues,
                   worst, frame, lastCall>>

\* A solver that reports the cancellation flag when it returns.
SolverStatusObserving == IF interrupted THEN "interrupted" ELSE "ok"

\* Line 519: iterativeOptimization returns normally; none of its statements
\* reads _interrupted.
SolverStatus == "ok"

\* Lines 435-518: the loop is left, the final parameters are applied once
\* more and the errors are tallied from the stored computed positions.
Finish ==
    /\ it.pc = "loop"
    /\ ~LoopContinues(it.deltaAboveTol, it.iter)
    /\ LET m1 == ApplyParameters(model, it.results)
           tm == TallyMarkers(m1, markers, FALSE)
           tc == TallyCoordinates(m1, info)
       IN  /\ model' = IF tm.queried THEN Queried(m1) ELSE m1
           /\ worst' = IF printPerformanceValues
                       THEN setErrorReportingQuantities(tm, tc, markers)
                       ELSE worst
           /\ lastCall' =
                [Call("iterativeOptimization", SolverStatus, it.results) EXCEPT
                   !.report = IF printPerformanceValues
                              THEN Printed(tm, tc, markers) ELSE NoReport]
    /\ it' = Idle
    /\ UNCHANGED <<labels, storage, taskSet, phase, ctorError, markers, info,
                   prescribedQs, unprescribedQs, unprescribedWeightedQs,
                   numParameters, dx, interrupted, printPerformanceValues,
                   frame>>

---------------------------------------------------------------------------
(* The specifications.                                                     *)

\* The inputs the evaluator and the solver are run on: a task set, the
\* labels, a model and what the even frames lack.  q3 is always locked.
\* Where q2 is constrained, q1 (clamped) is the only parameter, and every
\* pattern of missing values is tried; where it is free, q1 and q2 are the
\* parameters.  The last two make the constructor throw.
Scenarios ==
    { <<TasksUnweighted, LabelsStd, NewModel({3}, {2}, {1}), miss>> :
        miss \in MissingPatterns }
    \cup { <<TasksFull, LabelsDup, NewModel({3}, {2}, {1}), miss>> :
             miss \in MissingPatterns }
    \cup { <<TasksFull, LabelsStd, NewModel({3}, {}, {1}), {"M1_ty"}>>,
           <<TasksUnweighted, LabelsStd, NewModel({3}, {}, {}), {"M1_ty"}>>,
           <<TasksBad, LabelsStd, NewModel({3}, {}, {}), {}>>,
           <<TasksMarkersOnly, LabelsOld, NewModel({3}, {}, {}), {}>> }

Init ==
    \E sc \in Scenarios :
        InitWith(sc[1], sc[2], Storage(sc[2], sc[4]), sc[3])

\* The constructor, the frame binder, the evaluator and the solver with
\* the Jacobian builder.
Next ==
    \/ Construct
    \/ \E aIndex \in Frames : prepareToSolve(aIndex)
    \/ \E x \in ParamVectors : objectiveFunc(x)
    \/ interrupt
    \/ \E results \in ParamVectors : IterStart(results)
    \/ JacobianStep
    \/ TrialStep
    \/ Backtrack
    \/ Accept
    \/ Finish

Spec == Init /\ [][Next]_vars

\* The constructor, the frame binder and the evaluator with its print-out.
NextEval ==
    \/ Construct
    \/ \E aIndex \in Frames : prepareToSolve(aIndex)
    \/ \E x \in ParamVectors : objectiveFunc(x)
    \/ \E x \in ParamVectors : printPerformance(x)
    \/ interrupt

\* The evaluator's inputs: every scenario with two markers or one parameter.
ScenariosEval ==
    { sc \in Scenarios : sc[1] # TasksUnweighted \/ sc[3].constrained[2] }

InitEval ==
    \E sc \in ScenariosEval :
        InitWith(sc[1], sc[2], Storage(sc[2], sc[4]), sc[3])

SpecEval == InitEval /\ [][NextEval]_vars

\* A solve that needs more iterations than the solver allows: one weighted
\* coordinate, whose target is 0, started maxIter + 100 units away.
TasksCoordinateOnly == << CoordTask("q1", TRUE, 1, "ManualValue", 0) >>

FarStart == maxIter + 100

InitFar ==
    InitWith(TasksCoordinateOnly, LabelsStd, Storage(LabelsStd, {}),
             NewModel({3}, {2}, {}))

\* The steps of iterativeOptimization once it has been called.
SolverStep == JacobianStep \/ TrialStep \/ Backtrack \/ Accept \/ Finish

NextFar ==
    \/ Construct
    \/ \E aIndex \in Frames : prepareToSolve(aIndex)
    \/ IterStart(<<FarStart>>)
    \/ JacobianStep
    \/ TrialStep
    \/ Backtrack
    \/ Accept
    \/ Finish

\* iterativeOptimization is sequential code: once called it runs on.
SpecFar == InitFar /\ [][NextFar]_vars /\ WF_vars(SolverStep)

\* The constructor, the frame binder and the gradient.
NextGrad ==
    \/ Construct
    \/ \E aIndex \in Frames : prepareToSolve(aIndex)
    \/ \E x \in ParamVectors : gradientFunc(x)
    \/ interrupt

SpecGrad == Init /\ [][NextGrad]_vars

-----------------------------------------------------------------------------
\* Properties of the constructed target.

\* Is coordinate c an element of the sequence of coordinates s?
InSeq(s, c) == \E i \in 1..Len(s) : s[i] = c

\* Does the sequence s hold no coordinate twice, in the model's order?
Ordered(s) == \A i, j \in 1..Len(s) : i < j => s[i] < s[j]

\* C1: after construction every coordinate of the model is in exactly one
\* of the prescribed and unprescribed sets; it is prescribed exactly when
\* the model reports it locked or constrained, whether or not a task names
\* it; and the weighted-unprescribed set is the unprescribed coordinates of
\* nonzero weight, in the same relative order.
C1_CoordinatePartition ==
    phase = "ready" =>
        /\ \A c \in Coords : InSeq(prescribedQs, c) # InSeq(unprescribedQs, c)
        /\ Ordered(prescribedQs) /\ Ordered(unprescribedQs)
        /\ \A c \in Coords :
               InSeq(prescribedQs, c)
                   <=> (model.locked[c] \/ model.constrained[c])
        /\ unprescribedWeightedQs
               = SelectSeq(unprescribedQs, LAMBDA c : info[c].weight # 0)
        /\ \A c \in Coords :
               InSeq(unprescribedWeightedQs, c) => InSeq(unprescribedQs, c)

\* C1's case: a target whose model has a coordinate that is constrained but
\* not locked and named by no task, an unprescribed coordinate of weight
\* zero and one of nonzero weight.
C1_Witness ==
    /\ phase = "ready"
    /\ \E c \in Coords :
           /\ model.constrained[c] /\ ~model.locked[c]
           /\ \A i \in 1..Len(taskSet) : taskSet[i].name # CoordNames[c]
    /\ Len(unprescribedWeightedQs) > 0
    /\ Len(unprescribedWeightedQs) < Len(unprescribedQs)

\* Does task i name a marker that the model does not have?
NamesAbsentMarker(i) ==
    taskSet[i].kind = "marker" /\ taskSet[i].name \notin ModelMarkers

\* C6 (as the code has it): construction fails with a configuration error,
\* and no target is produced, whenever an applied marker task names a
\* marker absent from the model, whatever its weight; a marker task that is
\* not applied is skipped before its name is looked up.
C6_AppliedAbsentMarkerFails ==
    (phase # "new" /\ \E i \in 1..Len(taskSet) :
                          NamesAbsentMarker(i) /\ taskSet[i].apply)
        => (phase = "failed" /\ ctorError # "" /\ Len(markers) = 0)

\* C6 as stated: construction fails whenever any marker task names a marker
\* absent from the model.
C6_AnyAbsentMarkerFails ==
    (phase # "new" /\ \E i \in 1..Len(taskSet) : NamesAbsentMarker(i))
        => phase = "failed"

\* C6's case: the only tasks naming an absent marker are applied with
\* weight zero, and construction has failed on the missing marker.
C6_Witness ==
    /\ phase = "failed" /\ ctorError = "marker not found in model"
    /\ \E i \in 1..Len(taskSet) : NamesAbsentMarker(i)
    /\ \A i \in 1..Len(taskSet) :
           NamesAbsentMarker(i) => (taskSet[i].apply /\ taskSet[i].weight = 0)

-----------------------------------------------------------------------------
\* Properties of the solver's vectors.

\* C2: whatever calls were made on whatever frames, the residual vector and
\* every Jacobian column of a solve have 3*|markers| + |weightedUnprescribed|
\* rows, and the coordinate rows written by the solver and by the Jacobian
\* builder, starting at row 3*|markers|, are |weightedUnprescribed| rows:
\* the row counter ends at the length and no index falls outside it.
C2_ResidualShape ==
    it.pc # "idle" =>
        /\ Len(it.dError) = 3 * Len(markers) + Len(unprescribedWeightedQs)
        /\ Len(it.J) = numParameters
        /\ \A i \in 1..Len(it.J) :
               Len(it.J[i]) = 3 * Len(markers) + Len(unprescribedWeightedQs)
        /\ it.row - 3 * Len(markers) = Len(unprescribedWeightedQs)
        /\ it.row <= Len(it.dError)

\* C2's case: a later iteration of a solve on an even frame, for a target
\* with markers, an unprescribed coordinate of
\* weight zero and one of nonzero weight.
C2_Witness ==
    /\ it.pc = "check" /\ it.iter > 0
    /\ frame = 2
    /\ Len(markers) > 0
    /\ Len(unprescribedWeightedQs) > 0
    /\ Len(unprescribedWeightedQs) < Len(unprescribedQs)

\* C3: at the end of each iteration of the solver's loop the norm kept as
\* current does not exceed the norm kept as previous, which is the norm of
\* the pose accepted before: the accepted residual norms never increase.
\* (Norms are compared by their squares.)
C3_MonotoneNorm ==
    (it.pc = "loop" /\ it.iter > 0) =>
        /\ it.currentDErrorNormSq = NormSq(it.dError)
        /\ it.currentDErrorNormSq <= it.previousDErrorNormSq

\* C3's case: a later iteration has ended by accepting a step that had to be
\* halved, and the norm went down.
C3_Witness ==
    /\ it.pc = "loop" /\ it.iter > 1
    /\ it.backtracks > 0
    /\ it.currentDErrorNormSq < it.previousDErrorNormSq

-----------------------------------------------------------------------------
\* Properties of the evaluator.

\* Has the last call been an evaluation that returned?
Evaluated ==
    lastCall.op \in {"objectiveFunc", "printPerformance"}
        /\ lastCall.status = "ok"

\* The objective recomputed from what the target and the model hold.
ManualObjective ==
    SumSeq([i \in 1..Len(markers) |->
              IF markers[i].validExperimentalPosition
              THEN markers[i].weight
                     * SquaredError(markers[i].experimentalPosition,
                                    markers[i].computedPosition)
              ELSE 0])
    + SumSeq([i \in 1..Len(unprescribedWeightedQs) |->
                LET c == unprescribedWeightedQs[i]
                    err == info[c].experimentalValue - model.value[c]
                IN  info[c].weight * err * err])

\* C4: the value objectiveFunc returns is the sum over the markers with a
\* valid experimental position of weight times the squared distance between
\* experimental and computed position, plus the sum over the weighted
\* unprescribed coordinates of weight times the squared difference between
\* experimental value and model value; recomputing it after the call from
\* the stored positions, which are the model's transformed positions, gives
\* the same value.
C4_Objective ==
    Evaluated =>
        /\ lastCall.f = ManualObjective
        /\ \A i \in 1..Len(markers) :
               markers[i].validExperimentalPosition =>
                   markers[i].computedPosition
                       = transformPosition(markers[i].marker, model.value)

\* C4's case: an evaluation that returned a positive value in a frame with a
\* valid and an invalid marker and a weighted coordinate.
C4_Witness ==
    /\ Evaluated /\ lastCall.op = "objectiveFunc"
    /\ lastCall.f > 0
    /\ \E i, j \in 1..Len(markers) :
           /\ markers[i].validExperimentalPosition /\ markers[i].weight > 1
           /\ ~markers[j].validExperimentalPosition
    /\ Len(unprescribedWeightedQs) > 0

\* C5: whenever the cancellation flag is set, a call of objectiveFunc
\* (made directly or through printPerformance) fails with the interrupted
\* condition before anything else is done: no coordinate value is applied
\* to the model, no computedPosition changes, no worst-marker or
\* worst-coordinate diagnostic is updated and no objective value is
\* returned.
C5_InterruptedFirst ==
    [][ (/\ interrupted
         /\ \E x \in ParamVectors : objectiveFunc(x) \/ printPerformance(x))
        => (/\ lastCall'.status = "interrupted"
            /\ lastCall'.f = 0 /\ ~lastCall'.report.printed
            /\ model' = model
            /\ markers' = markers
            /\ worst' = worst) ]_vars

\* C5's case: objectiveFunc has been called with the flag set, after an
\* evaluation in the same frame had moved the model from its initial pose.
C5_Witness ==
    /\ interrupted
    /\ lastCall.op = "objectiveFunc" /\ lastCall.status = "interrupted"
    /\ frame > 0
    /\ \E c \in Coords :
           ~IsPrescribed(model, c) /\ model.value[c] # DefaultValues[c]

-----------------------------------------------------------------------------
\* Properties of the marker columns.

\* Is task i an applied marker task of nonzero weight for a model marker?
SolvedMarkerTask(i) ==
    /\ taskSet[i].kind = "marker" /\ taskSet[i].apply
    /\ taskSet[i].weight # 0 /\ taskSet[i].name \in ModelMarkers

\* With the suffix sfx for the first component's label: construction has
\* failed if some solved marker's label is absent; and each marker of a
\* constructed target has for experimentalColumn the index of its label
\* minus one, from which column and the two after it the experimental
\* position of the current frame has been read.
MarkerColumnsBy(sfx) ==
    /\ (phase # "new" /\ \E i \in 1..Len(taskSet) :
            SolvedMarkerTask(i)
                /\ findIndex(labels, taskSet[i].name \o sfx) < 0)
           => phase = "failed"
    /\ phase = "ready" =>
           \A i \in 1..Len(markers) :
               LET j == findIndex(labels, markers[i].marker \o sfx)
                   col == markers[i].experimentalColumn
               IN  /\ j >= 0 /\ col = j - 1
                   /\ frame > 0 =>
                          markers[i].experimentalPosition
                              = << storage[frame][col + 1],
                                   storage[frame][col + 2],
                                   storage[frame][col + 3] >>

\* C7 (as the code has it): for an applied marker task of nonzero weight
\* whose marker is in the model, construction succeeds only if the column
\* labels contain <name>_tx; then the marker's experimentalColumn is that
\* label's index minus one (time is column 0) and the two following columns
\* are read as its y and z components; when the label is absent
\* construction fails with a configuration error.
C7_MarkerColumnTx == MarkerColumnsBy("_tx")

\* C7 as stated: the label looked up is <name>_x.
C7_MarkerColumnX == MarkerColumnsBy("_x")

\* C7's case: a frame has been bound for a target whose labels list the
\* markers in another order than the tasks do, and the position read
\* differs from the one the marker started with.
C7_Witness ==
    /\ phase = "ready" /\ frame > 0
    /\ Len(markers) = 2
    /\ markers[1].experimentalColumn > markers[2].experimentalColumn
    /\ \A i \in 1..2 : markers[i].experimentalPosition # <<0, 0, 0>>

\* C7's failing case: a solved marker whose _tx label is absent while its
\* _x label is present.
C7_WitnessAbsent ==
    /\ phase = "failed" /\ ctorError = "marker not found in trc file"
    /\ \E i \in 1..Len(taskSet) :
           /\ SolvedMarkerTask(i)
           /\ findIndex(labels, taskSet[i].name \o "_x") >= 0

-----------------------------------------------------------------------------
\* Properties of missing markers.

\* Has the experimental position of marker i a not-a-number component?
HasNaN(i) == \E r \in 1..3 : isNAN(markers[i].experimentalPosition[r])

\* The rows of marker i in a vector of NumRows entries.
MarkerRows(i) == (3 * (i - 1) + 1)..(3 * i)

\* C8: in a frame where a marker's experimental position has a not-a-number
\* component the marker is marked invalid, and during a solve of that frame
\* its three rows of the residual vector and of every Jacobian column are
\* zero, whatever the marker held from earlier frames or evaluations.
C8_MissingMarkerRowsZero ==
    frame > 0 =>
        \A i \in 1..Len(markers) :
            HasNaN(i) =>
                /\ ~markers[i].validExperimentalPosition
                /\ it.pc # "idle" =>
                       \A k \in MarkerRows(i) :
                           /\ it.dError[k] = 0
                           /\ \A p \in 1..Len(it.J) : it.J[p][k] = 0

\* C8's case: in a later iteration of a solve, a marker that lacks one
\* component in this frame still holds a computed position from an earlier
\* frame, while another entry of the Jacobian and of the residual is not
\* zero.
C8_Witness ==
    /\ it.pc = "check" /\ it.iter > 0
    /\ \E i \in 1..Len(markers) :
           /\ HasNaN(i)
           /\ \E r \in 1..3 : ~isNAN(markers[i].experimentalPosition[r])
           /\ markers[i].computedPosition # <<0, 0, 0>>
    /\ \E p \in 1..Len(it.J) : \E k \in 1..Len(it.J[p]) : it.J[p][k] # 0
    /\ \E k \in 1..Len(it.dError) : it.dError[k] # 0

\* The markers with a valid experimental position in the current frame.
ValidMarkers == { i \in 1..Len(markers) : markers[i].validExperimentalPosition }

\* C9: a marker whose experimental position is invalid in the current frame
\* is excluded from the printed diagnostics: it adds nothing to the summed
\* squared marker error, it is not counted among the markers the RMS marker
\* error is averaged over, and it is never reported as the worst marker.
C9_InvalidMarkerExcluded ==
    (Evaluated /\ lastCall.report.printed) =>
        /\ lastCall.report.totalMarkerSquaredErrors
               = SumSeq([i \in 1..Len(markers) |->
                           IF i \in ValidMarkers
                           THEN SquaredError(markers[i].experimentalPosition,
                                             markers[i].computedPosition)
                           ELSE 0])
        /\ lastCall.report.totalMarkerSquaredErrors > 0 =>
               lastCall.report.markerDivisor = Cardinality(ValidMarkers)
        /\ \A i \in 1..Len(markers) :
               i \notin ValidMarkers =>
                   /\ lastCall.report.worstMarker # markers[i].marker
                   /\ worst.nameOfWorstMarker # markers[i].marker

\* The parts of C9 that hold: an invalid marker adds nothing to the summed
\* squared marker error and is never reported as the worst marker.
C9_InvalidMarkerNotTallied ==
    (Evaluated /\ lastCall.report.printed) =>
        /\ lastCall.report.totalMarkerSquaredErrors
               = SumSeq([i \in 1..Len(markers) |->
                           IF i \in ValidMarkers
                           THEN SquaredError(markers[i].experimentalPosition,
                                             markers[i].computedPosition)
                           ELSE 0])
        /\ \A i \in 1..Len(markers) :
               i \notin ValidMarkers =>
                   /\ lastCall.report.worstMarker # markers[i].marker
                   /\ worst.nameOfWorstMarker # markers[i].marker

\* C9's case: the performance has been printed, with a positive marker
\* error, in a frame with a valid and an invalid marker.
C9_Witness ==
    /\ Evaluated /\ lastCall.report.printed
    /\ lastCall.report.totalMarkerSquaredErrors > 0
    /\ ValidMarkers # {} /\ Cardinality(ValidMarkers) < Len(markers)

-----------------------------------------------------------------------------
\* Properties of the frame binder.

\* The value an unlocked coordinate c of the model takes when set to v.
ValueSet(c, v) == IF model.clamped[c] THEN Clamp(v) ELSE v

-----------------------------------------------------------------------------
\* Properties of the solver's loop.

\* C11: iterativeOptimization always reaches its end.  It goes round its
\* loop once more only while the last accepted step changed the norm by
\* more than the tolerance and fewer than maxIter (1000) iterations have
\* been made, so it never makes more than maxIter; it leaves the loop as
\* converged or at the iteration limit and in both cases returns the
\* current parameters in the same way, with no retry.
C11_SolverTerminates ==
    /\ [](it.iter <= maxIter)
    /\ [][ /\ (it.pc = "loop" /\ it'.pc = "solve") =>
                (it.deltaAboveTol /\ it.iter < maxIter)
           /\ (it.pc = "loop" /\ it'.pc = "idle") =>
                /\ ~it.deltaAboveTol \/ it.iter = maxIter
                /\ lastCall'.op = "iterativeOptimization"
                /\ lastCall'.status = "ok"
                /\ lastCall'.x = it.results
           /\ (it.pc = "check" /\ it'.pc = "loop") =>
                (it'.deltaAboveTol
                    <=> DeltaAboveTol(NormSq(it.dError),
                                      it.previousDErrorNormSq)) ]_vars
    /\ (it.pc # "idle") ~> (it.pc = "idle")

\* C11's case: the loop is about to be left at the iteration limit, the
\* last step having changed the norm by more than the tolerance.
C11_Witness ==
    it.pc = "loop" /\ it.iter = maxIter /\ it.deltaAboveTol

\* C11's other case: the loop is about to be left as converged.
C11_WitnessConverged ==
    it.pc = "loop" /\ it.iter > 1 /\ it.iter < maxIter /\ ~it.deltaAboveTol

\* Has the last call been an iterativeOptimization that returned?
Solved == lastCall.op = "iterativeOptimization" /\ lastCall.status = "ok"

\* The coordinate values of the pose x: x for the unprescribed coordinates,
\* the model's values for the others.
PoseValues(x) ==
    [c \in Coords |->
        IF \E i \in 1..Len(unprescribedQs) : unprescribedQs[i] = c
        THEN x[CHOOSE i \in 1..Len(unprescribedQs) : unprescribedQs[i] = c]
        ELSE model.value[c]]

\* C12: when iterativeOptimization returns, the model matches the returned
\* pose: every unprescribed coordinate, clamped or not, has the value
\* results[i], and every valid marker's computedPosition is the marker's
\* transformed position at the returned pose.
C12_ModelMatchesResults ==
    Solved =>
        /\ \A i \in 1..Len(unprescribedQs) :
               model.value[unprescribedQs[i]] = lastCall.x[i]
        /\ \A k \in 1..Len(markers) :
               markers[k].validExperimentalPosition =>
                   markers[k].computedPosition
                       = transformPosition(markers[k].marker,
                                           PoseValues(lastCall.x))

\* What holds of C12: the model holds the returned values as setValue
\* stores them (pulled into the range of a clamped coordinate), and the
\* computed positions are the transformed positions in that model.
C12_ModelMatchesClampedResults ==
    Solved =>
        /\ \A i \in 1..Len(unprescribedQs) :
               model.value[unprescribedQs[i]]
                   = ValueSet(unprescribedQs[i], lastCall.x[i])
        /\ \A k \in 1..Len(markers) :
               markers[k].validExperimentalPosition =>
                   markers[k].computedPosition
                       = transformPosition(markers[k].marker, model.value)

\* C12's case: a solve has returned a value outside the range of a clamped
\* coordinate, for a target with a valid marker.
C12_Witness ==
    /\ Solved
    /\ \E i \in 1..Len(unprescribedQs) :
           /\ model.clamped[unprescribedQs[i]]
           /\ lastCall.x[i] # Clamp(lastCall.x[i])
    /\ \E k \in 1..Len(markers) : markers[k].validExperimentalPosition

-----------------------------------------------------------------------------
\* Properties of unweighted coordinates.

\* Is task i an applied coordinate task naming coordinate c?
AppliedTaskOf(i, c) ==
    /\ taskSet[i].kind = "coord" /\ taskSet[i].apply
    /\ taskSet[i].name = CoordNames[c]

\* Is c an unprescribed coordinate whose (last) applied task has weight 0
\* and takes its value from file?
UnweightedFromFile(c) ==
    /\ phase = "ready" /\ InSeq(unprescribedQs, c)
    /\ \E i \in 1..Len(taskSet) :
           /\ AppliedTaskOf(i, c)
           /\ taskSet[i].weight = 0 /\ taskSet[i].valueType = "FromFile"
           /\ \A j \in (i + 1)..Len(taskSet) : ~AppliedTaskOf(j, c)

\* The index of coordinate c among the parameters.
ParameterOf(c) == CHOOSE i \in 1..Len(unprescribedQs) : unprescribedQs[i] = c

\* The unprescribed coordinates other than c that have a nonzero weight.
OtherWeighted(c) ==
    { d \in Coords \ {c} : InSeq(unprescribedQs, d) /\ info[d].weight # 0 }

\* C13: an unprescribed coordinate whose applied task has weight 0 and a
\* value from file gets its initial guess, in every frame, from its column
\* of that frame; it adds no term to the objective objectiveFunc returns
\* and has no row in the solver's residual vector or in the Jacobian.
C13_UnweightedFromFile ==
    \A c \in Coords :
        UnweightedFromFile(c) =>
            /\ lastCall.op = "prepareToSolve" =>
                   lastCall.qGuess[ParameterOf(c)]
                       = storage[frame][rfindIndex(labels, CoordNames[c])]
            /\ ~InSeq(unprescribedWeightedQs, c)
            /\ (lastCall.op = "objectiveFunc" /\ lastCall.status = "ok") =>
                   lastCall.f = ManualObjective
            /\ it.pc # "idle" =>
                   /\ Len(it.dError)
                          = 3 * Len(markers) + Cardinality(OtherWeighted(c))
                   /\ \A p \in 1..Len(it.J) : Len(it.J[p]) = Len(it.dError)
                   /\ \A k \in (3 * Len(markers) + 1)..Len(it.dError) :
                          it.J[ParameterOf(c)][k] = 0

\* C13's case: during a solve of an even frame the model's value of such a
\* coordinate differs from its column's value, and another coordinate has
\* a row.
C13_Witness ==
    \E c \in Coords :
        /\ UnweightedFromFile(c)
        /\ it.pc = "check" /\ frame = 2
        /\ model.value[c] # storage[frame][rfindIndex(labels, CoordNames[c])]
        /\ OtherWeighted(c) # {}

\* C13's case in the frame binder: the guess of such a coordinate differs
\* from the value the model holds for it.
C13_WitnessGuess ==
    \E c \in Coords :
        /\ UnweightedFromFile(c)
        /\ lastCall.op = "prepareToSolve" /\ frame = 2
        /\ lastCall.qGuess[ParameterOf(c)] # model.value[c]

-----------------------------------------------------------------------------
\* Properties of the gradient.

\* Has the last call been a gradientFunc that returned?
Differentiated == lastCall.op = "gradientFunc" /\ lastCall.status = "ok"

\* The scalar objective at x, evaluated from the state as it is.
ObjectiveAt(x) == EvalAt(model, markers, x).f

\* x with parameter i moved by d.
Moved(x, i, d) == [x EXCEPT ![i] = x[i] + d]

-----------------------------------------------------------------------------
\* Properties of the Jacobian builder.

\* C15: createJacobian restores every unprescribed coordinate exactly:
\* after the call each coordinate's clamped flag and model value are what
\* they were immediately before it, for every parameter vector, also one
\* with an entry outside the range of a clamped coordinate.
C15_JacobianRestores ==
    [][ (it.pc = "loop" /\ JacobianStep) =>
          \A i \in 1..Len(unprescribedQs) :
              LET c == unprescribedQs[i] IN
              /\ model'.clamped[c] = model.clamped[c]
              /\ model'.value[c] = model.value[c] ]_vars

\* What holds of C15: the clamped flags are as before the call, and each
\* unprescribed coordinate is left at the entry of the parameter vector that
\* was passed in, set while its clamping was off.
C15_JacobianRestoresParameters ==
    [][ (it.pc = "loop" /\ JacobianStep) =>
          \A i \in 1..Len(unprescribedQs) :
              LET c == unprescribedQs[i] IN
              /\ model'.clamped[c] = model.clamped[c]
              /\ model'.value[c] = it.results[i] ]_vars

\* C15's case: createJacobian has been called with an entry outside the
\* range of a coordinate that has clamping enabled.
C15_Witness ==
    /\ it.pc = "solve"
    /\ \E i \in 1..Len(unprescribedQs) :
           /\ model.clamped[unprescribedQs[i]]
           /\ it.results[i] # Clamp(it.results[i])

\* The number of weighted coordinates among the first i parameters.
WeightedRank(i) ==
    Cardinality({ j \in 1..i : info[unprescribedQs[j]].weight # 0 })

C16_WitnessBothWeighted ==
    /\ it.pc = "solve"
    /\ numParameters = 2
    /\ info[unprescribedQs[1]].weight # 0
    /\ info[unprescribedQs[2]].weight > 1

-----------------------------------------------------------------------------
\* Properties of the marker entries.

\* C17: every marker entry built at construction has a weight strictly
\* greater than 0, whatever weights the marker tasks carry.
C17_MarkerWeightPositive ==
    phase = "ready" => \A k \in 1..Len(markers) : markers[k].weight > 0

\* What holds of C17: every marker entry has a weight other than 0, the
\* weight of an applied marker task of that name.
C17_MarkerWeightNonzero ==
    phase = "ready" =>
        \A k \in 1..Len(markers) :
            /\ markers[k].weight # 0
            /\ \E i \in 1..Len(taskSet) :
                   /\ taskSet[i].kind = "marker" /\ taskSet[i].apply
                   /\ taskSet[i].name = markers[k].marker
                   /\ taskSet[i].weight = markers[k].weight

\* C17's case: a task set with a marker task of negative weight has been
\* accepted and the marker has its entry.
C17_Witness ==
    /\ phase = "ready"
    /\ \E k \in 1..Len(markers) : markers[k].weight < 0

-----------------------------------------------------------------------------
\* Properties of cancellation in the solver.

\* A step of iterativeOptimization that evaluates the residual: the first
\* evaluation, the trial of a step, or a pass of the backtracking loop.
SolverEvaluates ==
    \/ it.pc = "idle" /\ it'.pc = "loop"
    \/ it.pc = "solve" /\ it'.pc = "check"
    \/ it.pc = "check" /\ it'.pc = "check" /\ it' # it

C18_WitnessReturned ==
    /\ interrupted
    /\ it.pc = "idle"
    /\ lastCall.op = "iterativeOptimization" /\ lastCall.status = "ok"

-----------------------------------------------------------------------------
\* Properties of the forward-kinematics queries.

\* C19: with at least one parameter, every transformPosition query of
\* objectiveFunc, createJacobian and iterativeOptimization is made while the
\* model's dependent kinematics are up to date: the last coordinate value
\* applied before the query was applied with the recompute flag set.
C19_QueriesUpToDate ==
    numParameters > 0 => ~model.staleQuery

\* C19's case: createJacobian has left the model with a value restored
\* without recomputation, and since then the solver has applied a trial step
\* of two parameters and queried the position of a valid marker.
C19_Witness ==
    /\ numParameters = 2
    /\ it.pc = "check"
    /\ it.iter > 0
    /\ model.realized
    /\ \E k \in 1..Len(markers) : markers[k].validExperimentalPosition

\* The state between createJacobian and the next batch: the last value was
\* applied without recomputation.
C19_WitnessUnrealized ==
    /\ numParameters > 0
    /\ it.pc = "solve"
    /\ ~model.realized
    /\ \E k \in 1..Len(markers) : markers[k].validExperimentalPosition

=============================================================================
